---- MODULE Spec2Model ----
(***************************************************************************)
(* State-machine model of the SOLPRISM ("axiom") commit-reveal program:    *)
(* programs/axiom/src/lib.rs.  The three instructions register_agent,      *)
(* commit_reasoning and reveal_reasoning are modelled together with the    *)
(* account validation their #[derive(Accounts)] contexts declare.  Every   *)
(* instruction runs as one atomic transaction: when it returns an error    *)
(* the ledger keeps none of its writes.                                    *)
(***************************************************************************)
EXTENDS Integers, Sequences, FiniteSets, TLC

VARIABLES agent_profiles, commitments, events, clock, last

vars == <<agent_profiles, commitments, events, clock, last>>

----------------------------------------------------------------------------
(* Bounds of the model *)

\* largest nonce a caller supplies (at most U64_MAX)
MaxNonce == 2
\* largest reading of the external clock
MaxClock == 1
\* largest number of commitment records that exist at once
MaxCommitments == 2
\* largest value of a u64 counter: u64::MAX, scaled down so that it is reached
U64_MAX == 2

(* Program constants *)

MAX_NAME_LEN == 64
MAX_ACTION_TYPE_LEN == 32
MAX_CONFIDENCE == 100
MAX_URI_LEN == 256
INITIAL_SCORE == 10000
U8_MAX == 255

----------------------------------------------------------------------------
(* Inputs *)

\* a string of n bytes
RECURSIVE Str(_)
Str(n) ==
    IF n = 0 THEN ""
    ELSE LET half == Str(n \div 2)
         IN  IF n % 2 = 0 THEN half \o half ELSE half \o half \o "a"

Authorities == {"A", "B"}
Nonces == 0..MaxNonce

\* argument values at and beyond the limits the handlers check
Names == {Str(0), Str(1), Str(MAX_NAME_LEN), Str(MAX_NAME_LEN + 1)}
Hashes == {"H1", "H2"}
ActionTypes == {Str(0), Str(MAX_ACTION_TYPE_LEN), Str(MAX_ACTION_TYPE_LEN + 1)}
Confidences == {0, MAX_CONFIDENCE, MAX_CONFIDENCE + 1, U8_MAX}
Uris == {Str(0), Str(1), Str(MAX_URI_LEN), Str(MAX_URI_LEN + 1)}

----------------------------------------------------------------------------
(* Derived addresses *)

\* nonce.to_le_bytes(): the eight little-endian bytes of a u64
RECURSIVE LeBytes(_, _)
LeBytes(n, k) == IF k = 0 THEN <<>> ELSE <<n % 256>> \o LeBytes(n \div 256, k - 1)

\* the bytes of every u64, computed once
U64LeBytes == [n \in 0..U64_MAX |-> LeBytes(n, 8)]

to_le_bytes(nonce) == U64LeBytes[nonce]

\* seeds = [b"agent", authority.key()]
AgentPDA(authority) == <<"agent", authority>>

\* seeds = [b"commitment", agent_profile.key(), nonce.to_le_bytes()]
CommitmentPDA(agent, nonce) == <<"commitment", agent, to_le_bytes(nonce)>>

\* the canonical bump of a derived address
Bump(address) == U8_MAX

AgentAddresses == {AgentPDA(a) : a \in Authorities}

----------------------------------------------------------------------------
(* Outcome of an instruction: the error and the accounts and events as the *)
(* instruction left them.                                                  *)

Outcome(err, profiles, comms, evs) ==
    [err |-> err, agent_profiles |-> profiles, commitments |-> comms, events |-> evs]

Fail(err) == Outcome(err, agent_profiles, commitments, events)

\* u64::checked_add(1): None (the empty sequence) on overflow, else Some(x + 1)
None == <<>>
Some(x) == <<x>>
checked_add(x) == IF x + 1 > U64_MAX THEN None ELSE Some(x + 1)

----------------------------------------------------------------------------
(* register_agent *)

\* mutant: the handler without require!(!name.is_empty(), NameEmpty)
register_agent_handler_unnamed(authority, profile, name) ==
    IF ~(Len(name) <= MAX_NAME_LEN) THEN Fail("NameTooLong")
    ELSE Outcome("Ok",
                 [a \in DOMAIN agent_profiles \cup {profile} |->
                    IF a = profile
                    THEN [authority |-> authority,
                          name |-> name,
                          total_commitments |-> 0,
                          total_verified |-> 0,
                          accountability_score |-> INITIAL_SCORE,
                          created_at |-> clock,
                          bump |-> Bump(profile)]
                    ELSE agent_profiles[a]],
                 commitments, events)

\* the handler body, given the account the init constraint has created
register_agent_handler(authority, profile, name) ==
    IF ~(Len(name) <= MAX_NAME_LEN) THEN Fail("NameTooLong")
    ELSE IF Len(name) = 0 THEN Fail("NameEmpty")
    ELSE Outcome("Ok",
                 [a \in DOMAIN agent_profiles \cup {profile} |->
                    IF a = profile
                    THEN [authority |-> authority,
                          name |-> name,
                          total_commitments |-> 0,
                          total_verified |-> 0,
                          accountability_score |-> INITIAL_SCORE,
                          created_at |-> clock,
                          bump |-> Bump(profile)]
                    ELSE agent_profiles[a]],
                 commitments, events)

\* mutant: the profile declared init_if_needed, so an existing one is rewritten
RegisterAgentOutcome_if_needed(authority, profile, name) ==
    IF profile # AgentPDA(authority) THEN Fail("ConstraintSeeds")
    ELSE register_agent_handler(authority, profile, name)

\* #[derive(Accounts)] RegisterAgent, then the handler: the address must be the
\* PDA of the signer, and init fails for an account that exists
RegisterAgentOutcome(authority, profile, name) ==
    IF profile # AgentPDA(authority) THEN Fail("ConstraintSeeds")
    ELSE IF profile \in DOMAIN agent_profiles THEN Fail("AccountAlreadyInUse")
    ELSE register_agent_handler(authority, profile, name)

\* mutant: the writes an instruction made before it returned an error are kept
Transaction_partial(op, signer, out) ==
    /\ agent_profiles' = out.agent_profiles
    /\ commitments' = out.commitments
    /\ events' = out.events
    /\ last' = [op |-> op, signer |-> signer, err |-> out.err]
    /\ UNCHANGED clock

\* a transaction: its writes are kept only when the instruction returns Ok
Transaction(op, signer, out) ==
    /\ agent_profiles' = IF out.err = "Ok" THEN out.agent_profiles ELSE agent_profiles
    /\ commitments' = IF out.err = "Ok" THEN out.commitments ELSE commitments
    /\ events' = IF out.err = "Ok" THEN out.events ELSE events
    /\ last' = [op |-> op, signer |-> signer, err |-> out.err]
    /\ UNCHANGED clock

RegisterAgent(authority, profile, name) ==
    Transaction("register_agent", authority,
                RegisterAgentOutcome(authority, profile, name))

----------------------------------------------------------------------------
(* commit_reasoning *)

\* the commitment written, the profile counted and the event emitted
commit_writes(authority, profile, commitment, commitment_hash, action_type, confidence, nonce, timestamp) ==
    LET agent_key == profile
        commitment_key == commitment
        authority_key == authority
        now == clock
        written == [agent |-> agent_key,
                    authority |-> authority_key,
                    commitment_hash |-> commitment_hash,
                    action_type |-> action_type,
                    confidence |-> confidence,
                    timestamp |-> timestamp,
                    revealed |-> FALSE,
                    reasoning_uri |-> "",
                    nonce |-> nonce,
                    bump |-> Bump(commitment)]
        comms == [c \in DOMAIN commitments \cup {commitment} |->
                    IF c = commitment THEN written ELSE commitments[c]]
        total == checked_add(agent_profiles[profile].total_commitments)
    IN  IF total = None THEN Outcome("Overflow", agent_profiles, comms, events)
        ELSE Outcome("Ok",
                     [agent_profiles EXCEPT ![profile].total_commitments = total[1]],
                     comms,
                     Append(events, [type |-> "ReasoningCommitted",
                                     agent |-> agent_key,
                                     commitment |-> commitment_key,
                                     action_type |-> action_type,
                                     confidence |-> confidence,
                                     timestamp |-> now]))

\* mutant: require!(confidence < 100, InvalidConfidence)
commit_reasoning_handler_strict(authority, profile, commitment, commitment_hash, action_type, confidence, nonce) ==
    IF ~(Len(action_type) <= MAX_ACTION_TYPE_LEN) THEN Fail("ActionTypeTooLong")
    ELSE IF ~(confidence < MAX_CONFIDENCE) THEN Fail("InvalidConfidence")
    ELSE commit_writes(authority, profile, commitment, commitment_hash,
                       action_type, confidence, nonce, clock)

\* mutant: the handler without commitment.timestamp = now (the field stays 0)
commit_reasoning_handler_unstamped(authority, profile, commitment, commitment_hash, action_type, confidence, nonce) ==
    IF ~(Len(action_type) <= MAX_ACTION_TYPE_LEN) THEN Fail("ActionTypeTooLong")
    ELSE IF ~(confidence <= MAX_CONFIDENCE) THEN Fail("InvalidConfidence")
    ELSE commit_writes(authority, profile, commitment, commitment_hash,
                       action_type, confidence, nonce, 0)

\* mutant: the handler with require!(!action_type.is_empty(), ..) added
commit_reasoning_handler_nonempty(authority, profile, commitment, commitment_hash, action_type, confidence, nonce) ==
    IF ~(Len(action_type) <= MAX_ACTION_TYPE_LEN) THEN Fail("ActionTypeTooLong")
    ELSE IF Len(action_type) = 0 THEN Fail("ActionTypeEmpty")
    ELSE IF ~(confidence <= MAX_CONFIDENCE) THEN Fail("InvalidConfidence")
    ELSE commit_writes(authority, profile, commitment, commitment_hash,
                       action_type, confidence, nonce, clock)

\* the handler body, given the commitment account the init constraint created
commit_reasoning_handler(authority, profile, commitment, commitment_hash, action_type, confidence, nonce) ==
    IF ~(Len(action_type) <= MAX_ACTION_TYPE_LEN) THEN Fail("ActionTypeTooLong")
    ELSE IF ~(confidence <= MAX_CONFIDENCE) THEN Fail("InvalidConfidence")
    ELSE commit_writes(authority, profile, commitment, commitment_hash,
                       action_type, confidence, nonce, clock)

\* mutant: agent_profile declared with #[account(mut)] alone, without seeds, bump
\* and has_one = authority
CommitReasoningOutcome_unowned(authority, profile, commitment, commitment_hash, action_type, confidence, nonce) ==
    IF profile \notin DOMAIN agent_profiles THEN Fail("AccountNotInitialized")
    ELSE IF commitment # CommitmentPDA(profile, nonce) THEN Fail("ConstraintSeeds")
    ELSE IF commitment \in DOMAIN commitments THEN Fail("AccountAlreadyInUse")
    ELSE commit_reasoning_handler(authority, profile, commitment, commitment_hash,
                                  action_type, confidence, nonce)

\* mutant: the commitment declared init_if_needed, so an existing one is rewritten
CommitReasoningOutcome_if_needed(authority, profile, commitment, commitment_hash, action_type, confidence, nonce) ==
    IF profile \notin DOMAIN agent_profiles THEN Fail("AccountNotInitialized")
    ELSE IF commitment # CommitmentPDA(profile, nonce) THEN Fail("ConstraintSeeds")
    ELSE IF profile # AgentPDA(authority) THEN Fail("ConstraintSeeds")
    ELSE IF agent_profiles[profile].authority # authority THEN Fail("ConstraintHasOne")
    ELSE commit_reasoning_handler(authority, profile, commitment, commitment_hash,
                                  action_type, confidence, nonce)

\* #[derive(Accounts)] CommitReasoning, then the handler: agent_profile is loaded,
\* commitment is created at its PDA (init), then agent_profile's seeds and has_one
\* are checked
CommitReasoningOutcome(authority, profile, commitment, commitment_hash, action_type, confidence, nonce) ==
    IF profile \notin DOMAIN agent_profiles THEN Fail("AccountNotInitialized")
    ELSE IF commitment # CommitmentPDA(profile, nonce) THEN Fail("ConstraintSeeds")
    ELSE IF commitment \in DOMAIN commitments THEN Fail("AccountAlreadyInUse")
    ELSE IF profile # AgentPDA(authority) THEN Fail("ConstraintSeeds")
    ELSE IF agent_profiles[profile].authority # authority THEN Fail("ConstraintHasOne")
    ELSE commit_reasoning_handler(authority, profile, commitment, commitment_hash,
                                  action_type, confidence, nonce)

CommitReasoning(authority, profile, commitment, commitment_hash, action_type, confidence, nonce) ==
    Transaction("commit_reasoning", authority,
                CommitReasoningOutcome(authority, profile, commitment,
                                       commitment_hash, action_type, confidence, nonce))

----------------------------------------------------------------------------
(* reveal_reasoning *)

\* mutant: the reveal also sets commitment.timestamp to the time of the reveal
reveal_writes_restamped(authority, profile, commitment, reasoning_uri, revealed) ==
    LET comms == [commitments EXCEPT ![commitment].revealed = revealed,
                                     ![commitment].reasoning_uri = reasoning_uri,
                                     ![commitment].timestamp = clock]
        total == checked_add(agent_profiles[profile].total_verified)
    IN  IF total = None THEN Outcome("Overflow", agent_profiles, comms, events)
        ELSE Outcome("Ok",
                     [agent_profiles EXCEPT ![profile].total_verified = total[1]],
                     comms,
                     Append(events, [type |-> "ReasoningRevealed",
                                     agent |-> profile,
                                     commitment |-> commitment,
                                     reasoning_uri |-> reasoning_uri,
                                     timestamp |-> clock]))

\* the reveal written into the commitment and counted on the profile
reveal_writes(authority, profile, commitment, reasoning_uri, revealed) ==
    LET comms == [commitments EXCEPT ![commitment].revealed = revealed,
                                     ![commitment].reasoning_uri = reasoning_uri]
        total == checked_add(agent_profiles[profile].total_verified)
    IN  IF total = None THEN Outcome("Overflow", agent_profiles, comms, events)
        ELSE Outcome("Ok",
                     [agent_profiles EXCEPT ![profile].total_verified = total[1]],
                     comms,
                     Append(events, [type |-> "ReasoningRevealed",
                                     agent |-> profile,
                                     commitment |-> commitment,
                                     reasoning_uri |-> reasoning_uri,
                                     timestamp |-> clock]))

\* mutant: the handler without require!(!reasoning_uri.is_empty(), UriEmpty)
reveal_reasoning_handler_any_uri(authority, profile, commitment, reasoning_uri) ==
    IF ~(Len(reasoning_uri) <= MAX_URI_LEN) THEN Fail("UriTooLong")
    ELSE IF commitments[commitment].revealed THEN Fail("AlreadyRevealed")
    ELSE reveal_writes(authority, profile, commitment, reasoning_uri, TRUE)

\* mutant: the handler without require!(!commitment.revealed, AlreadyRevealed)
reveal_reasoning_handler_unguarded(authority, profile, commitment, reasoning_uri) ==
    IF ~(Len(reasoning_uri) <= MAX_URI_LEN) THEN Fail("UriTooLong")
    ELSE IF Len(reasoning_uri) = 0 THEN Fail("UriEmpty")
    ELSE reveal_writes(authority, profile, commitment, reasoning_uri, TRUE)

\* mutant: the handler without commitment.revealed = true
reveal_reasoning_handler_flagless(authority, profile, commitment, reasoning_uri) ==
    IF ~(Len(reasoning_uri) <= MAX_URI_LEN) THEN Fail("UriTooLong")
    ELSE IF Len(reasoning_uri) = 0 THEN Fail("UriEmpty")
    ELSE IF commitments[commitment].revealed THEN Fail("AlreadyRevealed")
    ELSE reveal_writes(authority, profile, commitment, reasoning_uri,
                       commitments[commitment].revealed)

reveal_reasoning_handler(authority, profile, commitment, reasoning_uri) ==
    IF ~(Len(reasoning_uri) <= MAX_URI_LEN) THEN Fail("UriTooLong")
    ELSE IF Len(reasoning_uri) = 0 THEN Fail("UriEmpty")
    ELSE IF commitments[commitment].revealed THEN Fail("AlreadyRevealed")
    ELSE reveal_writes(authority, profile, commitment, reasoning_uri, TRUE)

\* mutant: the commitment account declared with #[account(mut)] alone
RevealReasoningOutcome_unchecked(authority, profile, commitment, reasoning_uri) ==
    IF commitment \notin DOMAIN commitments THEN Fail("AccountNotInitialized")
    ELSE IF profile \notin DOMAIN agent_profiles THEN Fail("AccountNotInitialized")
    ELSE IF profile # AgentPDA(authority) THEN Fail("ConstraintSeeds")
    ELSE IF agent_profiles[profile].authority # authority THEN Fail("ConstraintHasOne")
    ELSE reveal_reasoning_handler(authority, profile, commitment, reasoning_uri)

\* #[derive(Accounts)] RevealReasoning, then the handler: both accounts are loaded,
\* then the constraints of commitment and those of agent_profile are checked
RevealReasoningOutcome(authority, profile, commitment, reasoning_uri) ==
    IF commitment \notin DOMAIN commitments THEN Fail("AccountNotInitialized")
    ELSE IF profile \notin DOMAIN agent_profiles THEN Fail("AccountNotInitialized")
    ELSE IF commitments[commitment].authority # authority THEN Fail("ConstraintHasOne")
    ELSE IF commitments[commitment].agent # profile THEN Fail("AgentMismatch")
    ELSE IF profile # AgentPDA(authority) THEN Fail("ConstraintSeeds")
    ELSE IF agent_profiles[profile].authority # authority THEN Fail("ConstraintHasOne")
    ELSE reveal_reasoning_handler(authority, profile, commitment, reasoning_uri)

RevealReasoning(authority, profile, commitment, reasoning_uri) ==
    Transaction("reveal_reasoning", authority,
                RevealReasoningOutcome(authority, profile, commitment, reasoning_uri))

----------------------------------------------------------------------------

Tick ==
    /\ clock < MaxClock
    /\ clock' = clock + 1
    /\ UNCHANGED <<agent_profiles, commitments, events, last>>

Init ==
    /\ agent_profiles = <<>>
    /\ commitments = <<>>
    /\ events = <<>>
    /\ clock = 0
    /\ last = [op |-> "none", signer |-> "none", err |-> "Ok"]

\* the calls of the callers I.authorities, with arguments from the sets of I;
\* a commitment is created only while fewer than MaxCommitments exist
NextOver(I) ==
    \/ \E s \in I.authorities, p \in I.authorities, name \in I.names :
          RegisterAgent(s, AgentPDA(p), name)
    \/ \E s \in I.authorities, p \in I.authorities, g \in I.authorities,
          n \in I.nonces, a \in I.args :
          /\ CommitReasoningOutcome(s, AgentPDA(p), CommitmentPDA(AgentPDA(g), n),
                                    a[1], a[2], a[3], n).err = "Ok"
                => Cardinality(DOMAIN commitments) < MaxCommitments
          /\ CommitReasoning(s, AgentPDA(p), CommitmentPDA(AgentPDA(g), n),
                             a[1], a[2], a[3], n)
    \/ \E s \in I.authorities, p \in I.authorities, g \in I.authorities,
          n \in I.nonces, u \in I.uris :
          RevealReasoning(s, AgentPDA(p), CommitmentPDA(AgentPDA(g), n), u)
    \/ Tick

\* two authorities and several nonces, one valid value of every argument
Inputs ==
    [authorities |-> Authorities,
     nonces |-> Nonces,
     names |-> {Str(MAX_NAME_LEN)},
     args |-> {<<"H1", Str(MAX_ACTION_TYPE_LEN), MAX_CONFIDENCE>>},
     uris |-> {Str(MAX_URI_LEN)}]

\* one authority and one nonce, every argument at and beyond its limits
DataInputs ==
    [authorities |-> {"A"},
     nonces |-> {0},
     names |-> Names,
     args |-> Hashes \X ActionTypes \X Confidences,
     uris |-> Uris]

\* two authorities registering under every name
RegistryInputs ==
    [authorities |-> Authorities,
     nonces |-> {0},
     names |-> Names,
     args |-> {<<"H1", Str(MAX_ACTION_TYPE_LEN), MAX_CONFIDENCE>>},
     uris |-> {Str(MAX_URI_LEN)}]

\* one authority using every nonce, action types and confidences at the limits
CommitInputs ==
    [authorities |-> {"A"},
     nonces |-> Nonces,
     names |-> {Str(MAX_NAME_LEN)},
     args |-> {"H1"} \X ActionTypes \X Confidences,
     uris |-> {Str(MAX_URI_LEN)}]

Next == NextOver(Inputs)
DataNext == NextOver(DataInputs)
RegistryNext == NextOver(RegistryInputs)
CommitNext == NextOver(CommitInputs)

Spec == Init /\ [][Next]_vars
SpecData == Init /\ [][DataNext]_vars
SpecRegistry == Init /\ [][RegistryNext]_vars
SpecCommit == Init /\ [][CommitNext]_vars

----------------------------------------------------------------------------
(* Properties *)

\* the errors by which account validation rejects a caller who is not the
\* authority of the accounts named, or who names a profile that does not exist
AuthorizationErrors == {"ConstraintHasOne", "ConstraintSeeds", "AccountNotInitialized"}

\* C1: in every reachable state every AgentProfile has
\* total_verified <= total_commitments.
C1_VerifiedAtMostCommitments ==
    \A p \in DOMAIN agent_profiles :
        agent_profiles[p].total_verified <= agent_profiles[p].total_commitments

\* a profile all of whose commitments are revealed, after a rejected second reveal
C1_Witness ==
    /\ last = [op |-> "reveal_reasoning", signer |-> "A", err |-> "AlreadyRevealed"]
    /\ \E p \in DOMAIN agent_profiles :
          /\ agent_profiles[p].total_verified >= 1
          /\ agent_profiles[p].total_verified = agent_profiles[p].total_commitments

\* C2: a reveal by the owning authority of an unrevealed commitment with a URI of
\* 1..256 bytes returns Ok, sets revealed and adds exactly 1 to total_verified; a
\* reveal of a revealed commitment with any valid URI returns AlreadyRevealed and
\* changes neither the commitment nor the profile counters.
C2_RevealOnce ==
    [][\A s \in DataInputs.authorities, n \in DataInputs.nonces, u \in DataInputs.uris :
         LET p == AgentPDA(s)
             c == CommitmentPDA(p, n)
         IN  ( /\ c \in DOMAIN commitments
               /\ commitments[c].authority = s
               /\ Len(u) >= 1 /\ Len(u) <= MAX_URI_LEN
               /\ RevealReasoning(s, p, c, u) )
             => IF ~commitments[c].revealed
                THEN /\ last'.err = "Ok"
                     /\ commitments'[c].revealed = TRUE
                     /\ agent_profiles'[p].total_verified
                          = agent_profiles[p].total_verified + 1
                     /\ agent_profiles'[p].total_commitments
                          = agent_profiles[p].total_commitments
                ELSE /\ last'.err = "AlreadyRevealed"
                     /\ commitments' = commitments
                     /\ agent_profiles' = agent_profiles]_vars

\* a second reveal was rejected and the commitment keeps the URI of the first
C2_Witness ==
    /\ last.op = "reveal_reasoning" /\ last.err = "AlreadyRevealed"
    /\ \E c \in DOMAIN commitments :
          /\ commitments[c].revealed
          /\ commitments[c].reasoning_uri = Str(1)
          /\ agent_profiles[commitments[c].agent].total_verified = 1

\* C3: a reveal signed by an authority other than the one stored in the commitment
\* fails with an authorization error whichever profile is supplied, and changes no
\* commitment and no profile.
C3_RevealByOtherAuthorityRejected ==
    [][last'.op = "reveal_reasoning" =>
         \A c \in DOMAIN commitments :
            commitments[c].authority # last'.signer =>
               \A q \in Inputs.authorities, u \in Inputs.uris :
                  RevealReasoning(last'.signer, AgentPDA(q), c, u)
                  => /\ last'.err \in AuthorizationErrors
                     /\ commitments' = commitments
                     /\ agent_profiles' = agent_profiles]_vars

\* B, registered, was rejected while A's commitment stands unrevealed
C3_Witness ==
    /\ last = [op |-> "reveal_reasoning", signer |-> "B", err |-> "ConstraintHasOne"]
    /\ AgentPDA("B") \in DOMAIN agent_profiles
    /\ \E c \in DOMAIN commitments :
          commitments[c].authority = "A" /\ ~commitments[c].revealed

\* C4: the first register_agent of an authority with a name of 1..64 bytes returns
\* Ok and creates the profile with total_commitments = 0, total_verified = 0 and
\* accountability_score = 10000; every later register_agent of that authority,
\* under any name, fails with AccountAlreadyInUse and leaves every profile as it is.
C4_RegisterOnce ==
    [][\A s \in RegistryInputs.authorities, name \in RegistryInputs.names :
         LET p == AgentPDA(s)
         IN  RegisterAgent(s, p, name)
             => IF p \in DOMAIN agent_profiles
                THEN /\ last'.err = "AccountAlreadyInUse"
                     /\ agent_profiles' = agent_profiles
                ELSE (Len(name) >= 1 /\ Len(name) <= MAX_NAME_LEN)
                     => /\ last'.err = "Ok"
                        /\ p \in DOMAIN agent_profiles'
                        /\ agent_profiles'[p].authority = s
                        /\ agent_profiles'[p].name = name
                        /\ agent_profiles'[p].total_commitments = 0
                        /\ agent_profiles'[p].total_verified = 0
                        /\ agent_profiles'[p].accountability_score = INITIAL_SCORE]_vars

\* a second registration was rejected after the profile had counted a commitment
C4_Witness ==
    /\ last.op = "register_agent" /\ last.err = "AccountAlreadyInUse"
    /\ \E p \in DOMAIN agent_profiles :
          agent_profiles[p].total_commitments >= 1 /\ agent_profiles[p].name = Str(1)

\* what a commit_reasoning of caller s for nonce n with arguments a must do when
\* s is registered and the nonce unused
CommitEffect(s, n, a) ==
    LET p == AgentPDA(s)
        c == CommitmentPDA(p, n)
    IN  /\ Len(a[2]) <= MAX_ACTION_TYPE_LEN /\ a[3] <= MAX_CONFIDENCE
           => /\ last'.err = "Ok"
              /\ c \in DOMAIN commitments'
              /\ commitments'[c].revealed = FALSE
              /\ commitments'[c].reasoning_uri = ""
              /\ commitments'[c].confidence = a[3]
              /\ agent_profiles'[p].total_commitments
                   = agent_profiles[p].total_commitments + 1
        /\ Len(a[2]) <= MAX_ACTION_TYPE_LEN /\ a[3] > MAX_CONFIDENCE
           => /\ last'.err = "InvalidConfidence"
              /\ commitments' = commitments
              /\ agent_profiles' = agent_profiles

\* C5 as claimed: for a registered authority and an unused nonce, every
\* action_type of at most 32 bytes and every confidence in 0..100 makes
\* commit_reasoning succeed and add 1 to total_commitments; confidence > 100 fails
\* with InvalidConfidence and changes nothing.
C5_CommitAlwaysSucceeds ==
    [][last'.op = "commit_reasoning" =>
         \A s \in CommitInputs.authorities, n \in CommitInputs.nonces,
            a \in CommitInputs.args :
            ( /\ AgentPDA(s) \in DOMAIN agent_profiles
              /\ CommitmentPDA(AgentPDA(s), n) \notin DOMAIN commitments
              /\ CommitReasoning(s, AgentPDA(s), CommitmentPDA(AgentPDA(s), n),
                                 a[1], a[2], a[3], n) )
            => CommitEffect(s, n, a)]_vars

\* C5 as amended: the same, for a profile whose total_commitments is below the
\* counter's maximum.
C5_CommitSucceedsBelowMax ==
    [][last'.op = "commit_reasoning" =>
         \A s \in CommitInputs.authorities, n \in CommitInputs.nonces,
            a \in CommitInputs.args :
            ( /\ AgentPDA(s) \in DOMAIN agent_profiles
              /\ agent_profiles[AgentPDA(s)].total_commitments < U64_MAX
              /\ CommitmentPDA(AgentPDA(s), n) \notin DOMAIN commitments
              /\ CommitReasoning(s, AgentPDA(s), CommitmentPDA(AgentPDA(s), n),
                                 a[1], a[2], a[3], n) )
            => CommitEffect(s, n, a)]_vars

\* commitments with confidence 0 and 100 exist and a confidence of 101 was refused
C5_Witness ==
    /\ last.op = "commit_reasoning" /\ last.err = "InvalidConfidence"
    /\ \E c, d \in DOMAIN commitments :
          /\ commitments[c].confidence = 0
          /\ commitments[d].confidence = MAX_CONFIDENCE
          /\ commitments[d].action_type = ""
    /\ agent_profiles[AgentPDA("A")].total_commitments = 2

\* C6: when a commitment exists for (agent, nonce), a commit_reasoning of that
\* agent for that nonce fails with AccountAlreadyInUse whatever hash, action_type
\* and confidence it carries and whether or not the commitment is revealed, and
\* changes no commitment and no profile.
C6_DuplicateNonceRejected ==
    [][last'.op = "commit_reasoning" =>
         \A s \in DataInputs.authorities, n \in DataInputs.nonces,
            a \in DataInputs.args :
            ( /\ CommitmentPDA(AgentPDA(s), n) \in DOMAIN commitments
              /\ CommitReasoning(s, AgentPDA(s), CommitmentPDA(AgentPDA(s), n),
                                 a[1], a[2], a[3], n) )
            => /\ last'.err = "AccountAlreadyInUse"
               /\ commitments' = commitments
               /\ agent_profiles' = agent_profiles]_vars

\* a second commit for the nonce of a revealed commitment was refused
C6_Witness ==
    /\ last.op = "commit_reasoning" /\ last.err = "AccountAlreadyInUse"
    /\ \E c \in DOMAIN commitments :
          /\ commitments[c].revealed
          /\ commitments[c].commitment_hash = "H2"
          /\ agent_profiles[commitments[c].agent].total_commitments = 1

\* the fields of a commitment that are set at its creation
CreationFields(r) ==
    <<r.agent, r.authority, r.commitment_hash, r.action_type, r.confidence,
      r.timestamp, r.nonce, r.bump>>

\* C7: no step changes the agent, authority, commitment_hash, action_type,
\* confidence, timestamp or nonce of an existing commitment; a successful reveal
\* changes only revealed and reasoning_uri of one commitment.
C7_CreationFieldsImmutable ==
    [][\A c \in DOMAIN commitments :
         /\ c \in DOMAIN commitments'
         /\ CreationFields(commitments'[c]) = CreationFields(commitments[c])]_vars

\* a commitment made at time 0 and revealed at time 1 still carries time 0
C7_Witness ==
    /\ last.op = "reveal_reasoning" /\ last.err = "Ok"
    /\ \E c \in DOMAIN commitments :
          /\ commitments[c].revealed
          /\ commitments[c].timestamp = 0
          /\ commitments[c].commitment_hash = "H2"
          /\ \E i \in DOMAIN events :
                /\ events[i].type = "ReasoningRevealed"
                /\ events[i].commitment = c
                /\ events[i].timestamp = 1

C9_TimestampPrecedesReveal ==
    \A i \in DOMAIN events :
        /\ events[i].commitment \in DOMAIN commitments
        /\ events[i].timestamp <= clock
        /\ events[i].type = "ReasoningCommitted"
           => commitments[events[i].commitment].timestamp = events[i].timestamp
        /\ events[i].type = "ReasoningRevealed"
           => commitments[events[i].commitment].timestamp <= events[i].timestamp

\* one commitment made and revealed at time 1, another made at 0 and revealed at 1
C9_Witness ==
    \E i, j \in DOMAIN events :
        /\ events[i].type = "ReasoningRevealed" /\ events[i].timestamp = 1
        /\ commitments[events[i].commitment].timestamp = 0
        /\ events[j].type = "ReasoningRevealed" /\ events[j].timestamp = 1
        /\ commitments[events[j].commitment].timestamp = 1

\* C10: in every interleaving of the atomic calls, a successful register_agent or
\* commit_reasoning creates a record at an address that held none, no
\* register_agent changes an existing profile and no commit_reasoning an existing
\* commitment, an attempt to create a record that exists fails with
\* AccountAlreadyInUse, and no commitment address has two ReasoningCommitted events.
C10_CreateIfAbsent ==
    [][/\ (last'.op = "register_agent" /\ clock' = clock)
          => /\ \A p \in DOMAIN agent_profiles :
                  p \in DOMAIN agent_profiles' /\ agent_profiles'[p] = agent_profiles[p]
             /\ last'.err = "Ok"
                => AgentPDA(last'.signer) \in DOMAIN agent_profiles' \ DOMAIN agent_profiles
             /\ AgentPDA(last'.signer) \in DOMAIN agent_profiles
                => \A name \in Inputs.names :
                      RegisterAgent(last'.signer, AgentPDA(last'.signer), name)
                      => last'.err = "AccountAlreadyInUse"
       /\ (last'.op = "commit_reasoning" /\ clock' = clock)
          => /\ \A c \in DOMAIN commitments :
                  c \in DOMAIN commitments' /\ commitments'[c] = commitments[c]
             /\ last'.err = "Ok"
                => Cardinality(DOMAIN commitments' \ DOMAIN commitments) = 1
             /\ \A n \in Inputs.nonces, a \in Inputs.args :
                  LET p == AgentPDA(last'.signer)
                      c == CommitmentPDA(p, n)
                  IN  ( c \in DOMAIN commitments
                        /\ CommitReasoning(last'.signer, p, c, a[1], a[2], a[3], n) )
                      => last'.err = "AccountAlreadyInUse"
       /\ \A i, j \in DOMAIN events' :
            ( /\ events'[i].type = "ReasoningCommitted"
              /\ events'[j].type = "ReasoningCommitted"
              /\ events'[i].commitment = events'[j].commitment )
            => i = j]_vars

\* both authorities are registered and a repeated registration was refused while
\* the winner's profile already counts a commitment
C10_Witness ==
    /\ last = [op |-> "register_agent", signer |-> "A", err |-> "AccountAlreadyInUse"]
    /\ DOMAIN agent_profiles = AgentAddresses
    /\ agent_profiles[AgentPDA("A")].total_commitments = 2
    /\ agent_profiles[AgentPDA("A")].created_at = 0
    /\ clock = 1

\* C11: a commit_reasoning, valid in every other respect, of a profile whose
\* total_commitments equals the maximum of the counter fails with Overflow: the
\* counter keeps its value, no commitment exists at the address of (agent, nonce)
\* afterwards, and no event is emitted.
C11_OverflowLeavesNothing ==
    [][(last'.op = "commit_reasoning" /\ clock' = clock) =>
         \A s \in CommitInputs.authorities, n \in CommitInputs.nonces,
            a \in CommitInputs.args :
            LET p == AgentPDA(s)
                c == CommitmentPDA(p, n)
            IN  ( /\ p \in DOMAIN agent_profiles
                  /\ agent_profiles[p].total_commitments = U64_MAX
                  /\ c \notin DOMAIN commitments
                  /\ Len(a[2]) <= MAX_ACTION_TYPE_LEN /\ a[3] <= MAX_CONFIDENCE
                  /\ CommitReasoning(s, p, c, a[1], a[2], a[3], n) )
                => /\ last'.err = "Overflow"
                   /\ agent_profiles'[p].total_commitments = U64_MAX
                   /\ agent_profiles' = agent_profiles
                   /\ c \notin DOMAIN commitments'
                   /\ commitments' = commitments
                   /\ events' = events]_vars

\* a commit was refused with Overflow: the counter stands at its maximum and there
\* are as many commitments and events as before the call
C11_Witness ==
    /\ last = [op |-> "commit_reasoning", signer |-> "A", err |-> "Overflow"]
    /\ agent_profiles[AgentPDA("A")].total_commitments = U64_MAX
    /\ Cardinality(DOMAIN commitments) = U64_MAX
    /\ Len(events) = U64_MAX

\* C12: a register_agent of an authority that has no profile fails with
\* NameTooLong for a name of more than 64 bytes and with NameEmpty for an empty
\* name, and the authority has no profile afterwards; whenever an authority has
\* no profile, so also after such failures, its register_agent with a name of
\* 1..64 bytes succeeds.
C12_InvalidNameLeavesNoProfile ==
    [][(last'.op = "register_agent" /\ clock' = clock) =>
         \A s \in RegistryInputs.authorities, name \in RegistryInputs.names :
            LET p == AgentPDA(s)
            IN  ( p \notin DOMAIN agent_profiles /\ RegisterAgent(s, p, name) )
                => /\ Len(name) > MAX_NAME_LEN
                      => /\ last'.err = "NameTooLong"
                         /\ p \notin DOMAIN agent_profiles'
                         /\ agent_profiles' = agent_profiles
                   /\ Len(name) = 0
                      => /\ last'.err = "NameEmpty"
                         /\ p \notin DOMAIN agent_profiles'
                         /\ agent_profiles' = agent_profiles
                   /\ (Len(name) >= 1 /\ Len(name) <= MAX_NAME_LEN)
                      => /\ last'.err = "Ok"
                         /\ p \in DOMAIN agent_profiles'
                         /\ agent_profiles'[p].name = name]_vars

\* A's registration under an empty name was refused: A has no profile, while B,
\* registered, has one
C12_Witness ==
    /\ last = [op |-> "register_agent", signer |-> "A", err |-> "NameEmpty"]
    /\ DOMAIN agent_profiles = {AgentPDA("B")}

\* C13: a commit_reasoning of a caller who has no profile, or who names the
\* profile of another authority, fails, creates no commitment and changes no
\* profile; and after every step every commitment references an existing profile
\* whose authority is the authority stored in the commitment.
C13_OnlyOwnerCommits ==
    [][/\ (last'.op = "commit_reasoning" /\ clock' = clock)
          => \A q \in Inputs.authorities, g \in Inputs.authorities,
                n \in Inputs.nonces, a \in Inputs.args :
                ( /\ \/ AgentPDA(last'.signer) \notin DOMAIN agent_profiles
                     \/ q # last'.signer
                  /\ CommitReasoning(last'.signer, AgentPDA(q),
                                     CommitmentPDA(AgentPDA(g), n),
                                     a[1], a[2], a[3], n) )
                => /\ last'.err # "Ok"
                   /\ commitments' = commitments
                   /\ agent_profiles' = agent_profiles
       /\ \A c \in DOMAIN commitments' :
            /\ commitments'[c].agent \in DOMAIN agent_profiles'
            /\ agent_profiles'[commitments'[c].agent].authority
                 = commitments'[c].authority]_vars

\* B, who has no profile, named the profile of A, under which A has committed,
\* and was refused
C13_Witness ==
    /\ last = [op |-> "commit_reasoning", signer |-> "B", err |-> "ConstraintSeeds"]
    /\ DOMAIN agent_profiles = {AgentPDA("A")}
    /\ agent_profiles[AgentPDA("A")].total_commitments = 1
    /\ \A c \in DOMAIN commitments : commitments[c].authority = "A"

\* the commitments recorded under profile p
CommitmentsOf(p) == {c \in DOMAIN commitments : commitments[c].agent = p}

\* C14: in every reachable state, whatever the interleaving of the calls, the
\* total_commitments of a profile is the number of commitments whose agent is that
\* profile and its total_verified is the number of those that are revealed.
C14_CountersCountRecords ==
    \A p \in DOMAIN agent_profiles :
        /\ agent_profiles[p].total_commitments = Cardinality(CommitmentsOf(p))
        /\ agent_profiles[p].total_verified
             = Cardinality({c \in CommitmentsOf(p) : commitments[c].revealed})

\* A has two commitments, one of them revealed, and a further commit of A was
\* refused
C14_Witness ==
    /\ last.op = "commit_reasoning" /\ last.signer = "A" /\ last.err # "Ok"
    /\ AgentPDA("A") \in DOMAIN agent_profiles
    /\ agent_profiles[AgentPDA("A")].total_commitments = 2
    /\ agent_profiles[AgentPDA("A")].total_verified = 1
    /\ Cardinality({c \in CommitmentsOf(AgentPDA("A")) : ~commitments[c].revealed}) = 1

\* C15: after every step the reasoning_uri of a commitment is empty exactly when
\* the commitment is unrevealed, and that of a revealed commitment has 1..256
\* bytes; a reveal_reasoning of the owner with an empty URI fails with UriEmpty and
\* one with a URI of more than 256 bytes with UriTooLong, and both leave the
\* commitment and the counters of the profile as they were.
C15_UriSetExactlyWhenRevealed ==
    [][/\ \A c \in DOMAIN commitments' :
            /\ (commitments'[c].reasoning_uri = "") <=> ~commitments'[c].revealed
            /\ commitments'[c].revealed
               => /\ Len(commitments'[c].reasoning_uri) >= 1
                  /\ Len(commitments'[c].reasoning_uri) <= MAX_URI_LEN
       /\ (last'.op = "reveal_reasoning" /\ clock' = clock)
          => \A s \in DataInputs.authorities, n \in DataInputs.nonces,
                u \in DataInputs.uris :
                LET p == AgentPDA(s)
                    c == CommitmentPDA(p, n)
                IN  ( /\ c \in DOMAIN commitments
                      /\ commitments[c].authority = s
                      /\ RevealReasoning(s, p, c, u) )
                    => /\ Len(u) = 0
                          => /\ last'.err = "UriEmpty"
                             /\ commitments' = commitments
                             /\ agent_profiles' = agent_profiles
                       /\ Len(u) > MAX_URI_LEN
                          => /\ last'.err = "UriTooLong"
                             /\ commitments' = commitments
                             /\ agent_profiles' = agent_profiles]_vars

\* a reveal with an empty URI was refused and the commitment stands unrevealed
\* with an empty reasoning_uri, none of the profile's commitments verified
C15_Witness ==
    /\ last = [op |-> "reveal_reasoning", signer |-> "A", err |-> "UriEmpty"]
    /\ \E c \in DOMAIN commitments :
          /\ ~commitments[c].revealed
          /\ commitments[c].reasoning_uri = ""
          /\ agent_profiles[commitments[c].agent].total_verified = 0

\* the fields of a profile that are set at its creation
ProfileFields(r) == <<r.authority, r.name, r.created_at, r.accountability_score, r.bump>>

\* C16: no step removes a profile or changes its authority, name, created_at or
\* accountability_score, which is 10000 in every profile; a commit_reasoning
\* changes at most total_commitments, and a reveal_reasoning at most
\* total_verified, of the profile of the caller, and creates no profile.
C16_ProfileFrame ==
    [][/\ \A p \in DOMAIN agent_profiles :
            /\ p \in DOMAIN agent_profiles'
            /\ ProfileFields(agent_profiles'[p]) = ProfileFields(agent_profiles[p])
       /\ \A p \in DOMAIN agent_profiles' :
            agent_profiles'[p].accountability_score = INITIAL_SCORE
       /\ (last'.op \in {"commit_reasoning", "reveal_reasoning"} /\ clock' = clock)
          => /\ DOMAIN agent_profiles' = DOMAIN agent_profiles
             /\ \A p \in DOMAIN agent_profiles :
                  /\ p # AgentPDA(last'.signer)
                     => agent_profiles'[p] = agent_profiles[p]
                  /\ last'.op = "commit_reasoning"
                     => agent_profiles'[p].total_verified
                          = agent_profiles[p].total_verified
                  /\ last'.op = "reveal_reasoning"
                     => agent_profiles'[p].total_commitments
                          = agent_profiles[p].total_commitments]_vars

\* A, registered at time 0, has committed and revealed; B, registered at time 1,
\* has counted nothing
C16_Witness ==
    /\ last = [op |-> "reveal_reasoning", signer |-> "A", err |-> "Ok"]
    /\ DOMAIN agent_profiles = AgentAddresses
    /\ agent_profiles[AgentPDA("A")].created_at = 0
    /\ agent_profiles[AgentPDA("A")].total_commitments = 1
    /\ agent_profiles[AgentPDA("A")].total_verified = 1
    /\ agent_profiles[AgentPDA("B")].created_at = 1
    /\ agent_profiles[AgentPDA("B")].total_commitments = 0

\* what a commit_reasoning of caller s for nonce n with arguments a must do to an
\* action_type of no bytes and to one of more than 32 bytes
ActionTypeEffect(s, n, a) ==
    LET p == AgentPDA(s)
        c == CommitmentPDA(p, n)
    IN  /\ (Len(a[2]) = 0 /\ a[3] <= MAX_CONFIDENCE)
           => /\ last'.err = "Ok"
              /\ c \in DOMAIN commitments'
              /\ commitments'[c].action_type = a[2]
              /\ agent_profiles'[p].total_commitments
                   = agent_profiles[p].total_commitments + 1
        /\ Len(a[2]) > MAX_ACTION_TYPE_LEN
           => /\ last'.err = "ActionTypeTooLong"
              /\ commitments' = commitments
              /\ agent_profiles' = agent_profiles

\* C17 as claimed: a commit_reasoning of a registered authority for an unused
\* nonce with an empty action_type and a valid confidence succeeds, stores the
\* empty action_type and adds 1 to total_commitments; one with an action_type of
\* more than 32 bytes fails with ActionTypeTooLong, creates no commitment and
\* changes no counter.
C17_EmptyActionTypeAccepted ==
    [][(last'.op = "commit_reasoning" /\ clock' = clock) =>
         \A s \in CommitInputs.authorities, n \in CommitInputs.nonces,
            a \in CommitInputs.args :
            ( /\ AgentPDA(s) \in DOMAIN agent_profiles
              /\ CommitmentPDA(AgentPDA(s), n) \notin DOMAIN commitments
              /\ CommitReasoning(s, AgentPDA(s), CommitmentPDA(AgentPDA(s), n),
                                 a[1], a[2], a[3], n) )
            => ActionTypeEffect(s, n, a)]_vars

\* C17 as amended: the same, for a profile whose total_commitments is below the
\* counter's maximum.
C17_EmptyActionTypeAcceptedBelowMax ==
    [][(last'.op = "commit_reasoning" /\ clock' = clock) =>
         \A s \in CommitInputs.authorities, n \in CommitInputs.nonces,
            a \in CommitInputs.args :
            ( /\ AgentPDA(s) \in DOMAIN agent_profiles
              /\ agent_profiles[AgentPDA(s)].total_commitments < U64_MAX
              /\ CommitmentPDA(AgentPDA(s), n) \notin DOMAIN commitments
              /\ CommitReasoning(s, AgentPDA(s), CommitmentPDA(AgentPDA(s), n),
                                 a[1], a[2], a[3], n) )
            => ActionTypeEffect(s, n, a)]_vars

\* a commitment with an empty action_type is stored and counted, and a commit with
\* an action_type of 33 bytes was refused
C17_Witness ==
    /\ last = [op |-> "commit_reasoning", signer |-> "A", err |-> "ActionTypeTooLong"]
    /\ Cardinality(DOMAIN commitments) = 1
    /\ \E c \in DOMAIN commitments : commitments[c].action_type = ""
    /\ agent_profiles[AgentPDA("A")].total_commitments = 1

\* C18: no step removes or rewrites an event; a successful commit_reasoning
\* appends exactly one ReasoningCommitted event that carries the agent, address,
\* action_type, confidence and timestamp of the commitment it stored, a successful
\* reveal_reasoning exactly one ReasoningRevealed event for the commitment it
\* revealed, and every other call nothing; so each commitment has at most one
\* ReasoningRevealed event, which its single ReasoningCommitted event precedes.
C18_EventLogMirrorsState ==
    [][/\ (last'.op = "commit_reasoning" /\ last'.err = "Ok" /\ clock' = clock)
          => /\ Len(events') = Len(events) + 1
             /\ SubSeq(events', 1, Len(events)) = events
             /\ LET e == events'[Len(events')]
                IN  /\ e.type = "ReasoningCommitted"
                    /\ DOMAIN commitments' \ DOMAIN commitments = {e.commitment}
                    /\ e.agent = commitments'[e.commitment].agent
                    /\ e.action_type = commitments'[e.commitment].action_type
                    /\ e.confidence = commitments'[e.commitment].confidence
                    /\ e.timestamp = commitments'[e.commitment].timestamp
       /\ (last'.op = "reveal_reasoning" /\ last'.err = "Ok" /\ clock' = clock)
          => /\ Len(events') = Len(events) + 1
             /\ SubSeq(events', 1, Len(events)) = events
             /\ LET e == events'[Len(events')]
                IN  /\ e.type = "ReasoningRevealed"
                    /\ e.commitment \in DOMAIN commitments
                    /\ ~commitments[e.commitment].revealed
                    /\ commitments'[e.commitment].revealed
                    /\ e.agent = commitments'[e.commitment].agent
                    /\ e.reasoning_uri = commitments'[e.commitment].reasoning_uri
                    /\ e.timestamp = clock
       /\ ~( /\ last'.op \in {"commit_reasoning", "reveal_reasoning"}
             /\ last'.err = "Ok" /\ clock' = clock )
          => events' = events
       /\ \A i \in DOMAIN events' :
            events'[i].type = "ReasoningRevealed"
            => /\ \A j \in DOMAIN events' :
                    ( /\ events'[j].type = "ReasoningRevealed"
                      /\ events'[j].commitment = events'[i].commitment )
                    => j = i
               /\ Cardinality({j \in DOMAIN events' :
                                 /\ events'[j].type = "ReasoningCommitted"
                                 /\ events'[j].commitment = events'[i].commitment}) = 1
               /\ \E j \in 1..(i - 1) :
                    /\ events'[j].type = "ReasoningCommitted"
                    /\ events'[j].commitment = events'[i].commitment]_vars

\* a commit, its reveal and a second commit are logged in that order, and the
\* refused second reveal that followed logged nothing
C18_Witness ==
    /\ last = [op |-> "reveal_reasoning", signer |-> "A", err |-> "AlreadyRevealed"]
    /\ Len(events) = 3
    /\ events[1].type = "ReasoningCommitted"
    /\ events[2].type = "ReasoningRevealed"
    /\ events[2].commitment = events[1].commitment
    /\ events[3].type = "ReasoningCommitted"
    /\ events[3].action_type = ""

\* C19: after every step the agent of every commitment is the address derived
\* from "agent" and the authority stored in that commitment; and a reveal_reasoning
\* whose caller is the authority of the commitment and who passes the profile
\* derived from its own key does not fail with AgentMismatch.
C19_AgentDerivedFromAuthority ==
    [][/\ \A c \in DOMAIN commitments' :
            commitments'[c].agent = AgentPDA(commitments'[c].authority)
       /\ (last'.op = "reveal_reasoning" /\ clock' = clock)
          => \A c \in DOMAIN commitments :
                commitments[c].authority = last'.signer
                => \A u \in Inputs.uris :
                      RevealReasoning(last'.signer, AgentPDA(last'.signer), c, u)
                      => last'.err # "AgentMismatch"]_vars

\* B revealed its commitment, recorded under the profile derived from B, while A
\* holds a commitment under its own
C19_Witness ==
    /\ last = [op |-> "reveal_reasoning", signer |-> "B", err |-> "Ok"]
    /\ \E c, d \in DOMAIN commitments :
          /\ commitments[c].authority = "B"
          /\ commitments[c].agent = AgentPDA("B")
          /\ commitments[c].revealed
          /\ commitments[d].authority = "A"
          /\ commitments[d].agent = AgentPDA("A")

\* C20: no reveal_reasoning fails with Overflow; after every step a profile with
\* an unrevealed commitment has total_verified < total_commitments; and a
\* reveal_reasoning of the owner for an unrevealed commitment with a URI of 1..256
\* bytes succeeds, also when total_commitments is at the counter's maximum.
C20_RevealNeverOverflows ==
    [][/\ \A c \in DOMAIN commitments' :
            ~commitments'[c].revealed
            => agent_profiles'[commitments'[c].agent].total_verified
                 < agent_profiles'[commitments'[c].agent].total_commitments
       /\ (last'.op = "reveal_reasoning" /\ clock' = clock)
          => /\ last'.err # "Overflow"
             /\ \A c \in DOMAIN commitments :
                  (commitments[c].authority = last'.signer /\ ~commitments[c].revealed)
                  => \A u \in CommitInputs.uris :
                        ( /\ Len(u) >= 1 /\ Len(u) <= MAX_URI_LEN
                          /\ RevealReasoning(last'.signer, AgentPDA(last'.signer), c, u) )
                        => /\ last'.err = "Ok"
                           /\ commitments'[c].revealed]_vars

\* the last commitment of a profile whose total_commitments is at the maximum was
\* revealed, which brought total_verified to the maximum
C20_Witness ==
    /\ last = [op |-> "reveal_reasoning", signer |-> "A", err |-> "Ok"]
    /\ agent_profiles[AgentPDA("A")].total_commitments = U64_MAX
    /\ agent_profiles[AgentPDA("A")].total_verified = U64_MAX
    /\ \A c \in DOMAIN commitments : commitments[c].revealed

====
